---- MODULE Spec2Model ----
(***************************************************************************)
(* drf-dynamic-read: dynamic field selection for serializers and the       *)
(* select_related / prefetch_related hints derived from it.                *)
(*                                                                         *)
(* Python strings are sequences of one-character strings, so that          *)
(* str.split and str.startswith are computed character by character.       *)
(* Python lists and tuples are sequences, Python sets are sets.            *)
(***************************************************************************)
EXTENDS Integers, Sequences, FiniteSets, TLC

\* ------------------------------------------------------------------ bounds

\* Longest filter_fields / omit_fields tuple a request carries.
MaxFields == 2

\* Capacity of the lru_cache around get_prefetch_select (2048 in the source,
\* scaled down so that eviction happens).
MaxSize == 2

\* Capacity of the lru_cache around process_field_options (functools' default
\* of 128 in the source, scaled down).
PfoMaxSize == 2

\* ----------------------------------------------------------------- strings

Range(s) == {s[i] : i \in 1..Len(s)}

\* str.startswith
StartsWith(s, prefix) ==
    /\ Len(prefix) <= Len(s)
    /\ SubSeq(s, 1, Len(prefix)) = prefix

\* Index of the leftmost occurrence of sep in s, 0 when there is none.
Find(s, sep) ==
    LET hits == {i \in 1..(Len(s) - Len(sep) + 1) :
                    SubSeq(s, i, i + Len(sep) - 1) = sep}
    IN  IF hits = {} THEN 0 ELSE CHOOSE i \in hits : \A j \in hits : i <= j

\* str.split(sep): always at least one piece, empty pieces kept.
RECURSIVE Split(_, _)
Split(s, sep) ==
    LET i == Find(s, sep)
    IN  IF i = 0 THEN <<s>>
        ELSE <<SubSeq(s, 1, i - 1)>> \o Split(SubSeq(s, i + Len(sep), Len(s)), sep)

\* The concatenation of a sequence of sequences.
RECURSIVE Flatten(_)
Flatten(ss) == IF ss = <<>> THEN <<>> ELSE ss[1] \o Flatten(Tail(ss))

\* sep.join(parts)
RECURSIVE Join(_, _)
Join(parts, sep) ==
    IF parts = <<>> THEN <<>>
    ELSE IF Len(parts) = 1 THEN parts[1]
    ELSE parts[1] \o sep \o Join(Tail(parts), sep)

LOOKUP_SEP == <<"_", "_">>
COMMA == <<",">>

\* ------------------------------------------------- the serializer classes
\* The serializer classes and their models are the library user's code; the
\* ones below are the Book scenario plus a class with opaque children, a
\* child declared with its own filter_fields, and a subclass.

s_title    == <<"t","i","t","l","e">>
s_author   == <<"a","u","t","h","o","r">>
s_reviews  == <<"r","e","v","i","e","w","s">>
s_reviewer == <<"r","e","v","i","e","w","e","r">>
s_name     == <<"n","a","m","e">>
s_email    == <<"e","m","a","i","l">>
s_text     == <<"t","e","x","t">>
s_books    == <<"b","o","o","k","s">>
s_curator  == <<"c","u","r","a","t","o","r">>
s_owner    == <<"o","w","n","e","r">>
s_staff    == <<"s","t","a","f","f">>
s_book     == <<"b","o","o","k">>
s_auth     == <<"a","u","t","h">>
s_zzz      == <<"z","z","z">>
s_x        == <<"x">>
s_empty    == <<>>

\* A declared field: a plain Field, a Serializer that is no
\* DynamicReadSerializerMixin, or a DynamicReadSerializerMixin ("Dynamic");
\* many = TRUE wraps the serializer in a ListSerializer.
PlainField(n) ==
    [name |-> n, type |-> "Field", many |-> FALSE, cls |-> "",
     filter_fields |-> <<>>, omit_fields |-> <<>>]
StaticChild(n, c, m) ==
    [name |-> n, type |-> "Serializer", many |-> m, cls |-> c,
     filter_fields |-> <<>>, omit_fields |-> <<>>]
DynamicChild(n, c, m, ff) ==
    [name |-> n, type |-> "Dynamic", many |-> m, cls |-> c,
     filter_fields |-> ff, omit_fields |-> <<>>]

Classes == {"Book", "Author", "AuthorDetail", "Review", "Reviewer", "Library"}

\* The fields_map of Serializer.get_fields(), in declaration order.
DeclaredFields(cls) ==
    CASE cls = "Book" ->
           << PlainField(s_title),
              DynamicChild(s_author, "Author", FALSE, <<>>),
              DynamicChild(s_reviews, "Review", TRUE, <<>>) >>
      [] cls = "Author" ->
           << PlainField(s_name), PlainField(s_email) >>
      [] cls = "AuthorDetail" ->
           << PlainField(s_name), PlainField(s_email),
              DynamicChild(s_reviews, "Review", TRUE, <<>>) >>
      [] cls = "Review" ->
           << PlainField(s_text),
              DynamicChild(s_reviewer, "Reviewer", FALSE, <<>>) >>
      [] cls = "Reviewer" ->
           << PlainField(s_name) >>
      [] cls = "Library" ->
           << PlainField(s_name),
              DynamicChild(s_books, "Book", TRUE, <<>>),
              DynamicChild(s_curator, "AuthorDetail", FALSE, <<s_name>>),
              StaticChild(s_owner, "Person", FALSE),
              StaticChild(s_staff, "Person", TRUE) >>

\* cls.__mro__ restricted to the serializer classes above.
Mro(cls) == IF cls = "AuthorDetail" THEN <<"AuthorDetail", "Author">> ELSE <<cls>>

\* get_relational_fields(cls): the accessor names of the relations of
\* cls.Meta.model, in the order of model._meta.get_fields().
get_relational_fields(cls) ==
    CASE cls = "Book"         -> <<s_author, s_reviews>>
      [] cls = "Author"       -> <<s_books>>
      [] cls = "AuthorDetail" -> <<s_books, s_reviews>>
      [] cls = "Review"       -> <<s_book, s_reviewer>>
      [] cls = "Reviewer"     -> <<s_reviews>>
      [] cls = "Library"      -> <<s_books, s_curator, s_owner, s_staff>>

FieldNamesOf(fields_map) == {fields_map[i].name : i \in 1..Len(fields_map)}
FieldNames(cls) == FieldNamesOf(DeclaredFields(cls))

\* fields_map[name]
FieldObjOf(fields_map, name) ==
    fields_map[CHOOSE i \in 1..Len(fields_map) : fields_map[i].name = name]
FieldObj(cls, name) == FieldObjOf(DeclaredFields(cls), name)

\* ------------------------------------------------------------ the parser

\* dynamic_read_meta(): fields is a set of names or ALL_FIELDS (all = TRUE).
\* The nested defaultdict is the tree itself: a dr_meta is a function from
\* the paths of its nodes (sequences of field names, <<>> the root) to them.
dynamic_read_meta == [fields |-> [all |-> FALSE, names |-> {}], omit |-> {}]
ALL_FIELDS == [all |-> TRUE, names |-> {}]

NewMeta == [p \in {<<>>} |-> dynamic_read_meta]

\* parent_meta["nested"][parent_field] on a defaultdict: created on access.
Touch(tree, p) ==
    IF p \in DOMAIN tree THEN tree
    ELSE [q \in DOMAIN tree \cup {p} |-> IF q = p THEN dynamic_read_meta ELSE tree[q]]

\* The keys of dr_meta["nested"] and dr_meta["nested"][field].
Nested(tree) == {p[1] : p \in {q \in DOMAIN tree : Len(q) = 1}}
SubTree(tree, field) ==
    [q \in {SubSeq(p, 2, Len(p)) : p \in {r \in DOMAIN tree : Len(r) >= 1 /\ r[1] = field}}
        |-> tree[<<field>> \o q]]

\* field_meta["fields"].add(field) on the node at p. The set is still a set
\* here: every filter path is processed before the first omit path assigns
\* ALL_FIELDS.
AddField(tree, p, field) == [tree EXCEPT ![p].fields.names = @ \cup {field}]

\* One filter path: field number i goes into the fields of the node its
\* predecessors name.
RECURSIVE FilterPath(_, _, _)
FilterPath(tree, field_list, i) ==
    IF i > Len(field_list) THEN tree
    ELSE FilterPath(AddField(Touch(tree, SubSeq(field_list, 1, i - 1)),
                             SubSeq(field_list, 1, i - 1), field_list[i]),
                    field_list, i + 1)

\* field_meta["fields"] = ALL_FIELDS on the node at p.
SetAllFields(tree, p) == [tree EXCEPT ![p].fields = ALL_FIELDS]

\* One omit path: every node on the way gets fields = ALL_FIELDS ...
RECURSIVE OmitPathWalk(_, _, _)
OmitPathWalk(tree, field_list, i) ==
    IF i > Len(field_list) THEN tree
    ELSE OmitPathWalk(SetAllFields(Touch(tree, SubSeq(field_list, 1, i - 1)),
                                   SubSeq(field_list, 1, i - 1)),
                      field_list, i + 1)

\* ... and the last node omits the last name; an empty field_list raises
\* IndexError, which is suppressed.
AddOmit(tree, field_list) ==
    IF Len(field_list) = 0 THEN tree
    ELSE [tree EXCEPT ![SubSeq(field_list, 1, Len(field_list) - 1)].omit =
                          @ \cup {field_list[Len(field_list)]}]
OmitPath(tree, field_list) == AddOmit(OmitPathWalk(tree, field_list, 1), field_list)

RECURSIVE FilterPaths(_, _, _)
FilterPaths(tree, filter_fields, k) ==
    IF k > Len(filter_fields) THEN tree
    ELSE FilterPaths(FilterPath(tree, Split(filter_fields[k], LOOKUP_SEP), 1),
                     filter_fields, k + 1)

RECURSIVE OmitPaths(_, _, _)
OmitPaths(tree, omit_fields, k) ==
    IF k > Len(omit_fields) THEN tree
    ELSE OmitPaths(OmitPath(tree, Split(omit_fields[k], LOOKUP_SEP)),
                   omit_fields, k + 1)

process_field_options(filter_fields, omit_fields) ==
    OmitPaths(FilterPaths(NewMeta, filter_fields, 1), omit_fields, 1)

\* ------------------------------------------------- serializer instances

\* self.dr_meta: None (has = FALSE) or a dr_meta tree.
NoMeta == [has |-> FALSE, tree |-> NewMeta]

\* The exceptions an operation can end with; "" is a normal return.
NoExc == ""

\* DynamicReadSerializerMixin.__init__: the assertion, the tuple casts, and
\* dr_meta parsed only when one of the tuples is not empty. pfo lists the
\* process_field_options calls made (its lru_cache sees them).
SerializerInitNoAssertion(cls, filter_fields, omit_fields) ==
    [exc |-> NoExc,
     pfo |-> IF filter_fields # <<>> \/ omit_fields # <<>>
             THEN << <<filter_fields, omit_fields>> >> ELSE <<>>,
     node |-> [cls |-> cls,
               _filter_fields |-> filter_fields,
               _omit_fields |-> omit_fields,
               dr_meta |-> IF filter_fields # <<>> \/ omit_fields # <<>>
                           THEN [has |-> TRUE,
                                 tree |-> process_field_options(filter_fields, omit_fields)]
                           ELSE NoMeta,
               fields |-> [done |-> FALSE, names |-> {}]]]
SerializerInit(cls, filter_fields, omit_fields) ==
    IF filter_fields # <<>> /\ omit_fields # <<>>
    THEN [exc |-> "AssertionError", pfo |-> <<>>, node |-> <<>>]
    ELSE [exc |-> NoExc,
          pfo |-> IF filter_fields # <<>> \/ omit_fields # <<>>
                  THEN << <<filter_fields, omit_fields>> >> ELSE <<>>,
          node |-> [cls |-> cls,
                    _filter_fields |-> filter_fields,
                    _omit_fields |-> omit_fields,
                    dr_meta |-> IF filter_fields # <<>> \/ omit_fields # <<>>
                                THEN [has |-> TRUE,
                                      tree |-> process_field_options(filter_fields, omit_fields)]
                                ELSE NoMeta,
                    fields |-> [done |-> FALSE, names |-> {}]]]

\* is_child_multiple: isinstance(child, ListSerializer).
is_child_multiple(child) == child.type # "Field" /\ child.many

\* extract_serializer_from_child: the exception it ends with. The child it
\* returns is the serializer itself or the ListSerializer's child.
extract_serializer_from_child(child) ==
    IF ~child.many /\ child.type = "Dynamic" THEN NoExc
    ELSE IF child.many /\ child.type = "Dynamic" THEN NoExc
    ELSE "ChildNotSupported"

\* with suppress(ChildNotSupported, KeyError) around one attachment.
AttachSuppressOnlyChildNotSupported == {"ChildNotSupported"}
AttachSuppressed == {"ChildNotSupported", "KeyError"}

\* with suppress(ChildNotSupported) around one relation of the walk.
WalkSuppressed == {"ChildNotSupported"}

\* The desired field names of derive_desired_fields.
DesiredWithoutIntersection(dr_meta, field_names) ==
    IF dr_meta[<<>>].omit # {} THEN field_names \ dr_meta[<<>>].omit
    ELSE IF dr_meta[<<>>].fields.all THEN field_names
    ELSE dr_meta[<<>>].fields.names
DesiredFieldNames(dr_meta, field_names) ==
    IF dr_meta[<<>>].omit # {} THEN field_names \ dr_meta[<<>>].omit
    ELSE IF dr_meta[<<>>].fields.all THEN field_names
    ELSE dr_meta[<<>>].fields.names \cap field_names

\* One turn of the attachment loop: what fields_map[field] and
\* extract_serializer_from_child raise for a key of dr_meta["nested"].
AttachExc(fields_map, field) ==
    IF field \notin FieldNamesOf(fields_map) THEN "KeyError"
    ELSE extract_serializer_from_child(FieldObjOf(fields_map, field))

\* if nested_field.dr_meta is None: nested_field.dr_meta = field_meta
AttachNever(own, field_meta) == own
Attach(own, field_meta) ==
    IF ~own.has THEN [has |-> TRUE, tree |-> field_meta] ELSE own

\* The serializer behind declared field d as get_fields() hands it out: a
\* fresh copy built from the declaration's own arguments.
FreshChild(d) == SerializerInit(d.cls, d.filter_fields, d.omit_fields)

\* The child's dr_meta (own, as constructed) once the parent, with dr_meta
\* parent_meta, has run the attachment loop of derive_desired_fields.
ChildMeta(fields_map, parent_meta, d, own) ==
    IF parent_meta.has /\ d.name \in Nested(parent_meta.tree)
       /\ AttachExc(fields_map, d.name) = NoExc
    THEN Attach(own, SubTree(parent_meta.tree, d.name))
    ELSE own

\* derive_desired_fields: the exception that leaves the attachment loop.
FirstExc(excs) == IF excs = {} THEN NoExc ELSE CHOOSE e \in excs : TRUE
DeriveExc(fields_map, dr_meta) ==
    FirstExc({AttachExc(fields_map, f) : f \in Nested(dr_meta)}
                 \ (AttachSuppressed \cup {NoExc}))

\* The serializer children of fields_map after the attachment loop.
ChildOf(fields_map, parent_meta, d, fresh) ==
    [pfo |-> fresh.pfo,
     node |-> [fresh.node EXCEPT
                 !.dr_meta = ChildMeta(fields_map, parent_meta, d, fresh.node.dr_meta)]]
Children(fields_map, parent_meta) ==
    [i \in 1..Len(fields_map) |->
        IF fields_map[i].type = "Dynamic"
        THEN ChildOf(fields_map, parent_meta, fields_map[i], FreshChild(fields_map[i]))
        ELSE [pfo |-> <<>>, node |-> <<>>]]

\* An instance is the set of its serializers that exist, by their place:
\* <<>> is the top-level serializer, p \o <<f>> the serializer behind field f
\* of the one at p. The property `fields` of the serializer at p, evaluated
\* for the first time: get_fields() builds the children, derive_desired_fields
\* narrows the names and attaches the nested dr_meta, and the chosen fields
\* are bound. Children that are not bound are dropped with fields_map.
Bound(fields_map, names) ==
    {i \in 1..Len(fields_map) :
        fields_map[i].type = "Dynamic" /\ fields_map[i].name \in names}
Bind(nodes, p, fields_map, exc, names, children) ==
    IF exc # NoExc
    THEN [exc |-> exc, nodes |-> nodes,
          pfo |-> Flatten([i \in 1..Len(fields_map) |-> children[i].pfo])]
    ELSE [exc |-> NoExc,
          pfo |-> Flatten([i \in 1..Len(fields_map) |-> children[i].pfo]),
          nodes |->
            [q \in DOMAIN nodes
                   \cup {Append(p, fields_map[i].name) : i \in Bound(fields_map, names)} |->
               IF q = p
               THEN [nodes[p] EXCEPT !.fields = [done |-> TRUE, names |-> names]]
               ELSE IF q \in DOMAIN nodes THEN nodes[q]
               ELSE children[CHOOSE i \in Bound(fields_map, names) :
                                q = Append(p, fields_map[i].name)].node]]
ResolveNode(nodes, p, n, fields_map) ==
    Bind(nodes, p, fields_map,
         IF n.dr_meta.has THEN DeriveExc(fields_map, n.dr_meta.tree) ELSE NoExc,
         IF n.dr_meta.has
         THEN DesiredFieldNames(n.dr_meta.tree, FieldNamesOf(fields_map))
         ELSE FieldNamesOf(fields_map),
         Children(fields_map, n.dr_meta))
ResolveFields(nodes, p) ==
    ResolveNode(nodes, p, nodes[p], DeclaredFields(nodes[p].cls))

\* ------------------------------------------------------ the relation walk

\* A relation whose child raised ChildNotSupported: the suppress block is
\* left before anything is appended.
OpaqueChildGetsHint(acc, is_many, accessor) ==
    IF is_many THEN [acc EXCEPT !.final_prefetch = Append(@, accessor)]
    ELSE [acc EXCEPT !.final_select = Append(@, accessor)]
OpaqueChild(acc, is_many, accessor) == acc

\* if sub_select_related: ... elif not is_many: ...
MergeSelectAcrossMany(acc, is_many, accessor, sub_select_related) ==
    IF sub_select_related # <<>>
    THEN [acc EXCEPT !.final_select = @ \o sub_select_related]
    ELSE IF ~is_many
    THEN [acc EXCEPT !.final_select = Append(@, accessor)]
    ELSE acc
MergeSelect(acc, is_many, accessor, sub_select_related) ==
    IF sub_select_related # <<>>
    THEN IF ~is_many
         THEN [acc EXCEPT !.final_select = @ \o sub_select_related]
         ELSE [acc EXCEPT !.final_prefetch = @ \o sub_select_related]
    ELSE IF ~is_many
    THEN [acc EXCEPT !.final_select = Append(@, accessor)]
    ELSE acc

\* if sub_prefetch_related: ... elif is_many: ...
MergePrefetchOwnPathByJoins(acc, is_many, accessor, sub_select_related, sub_prefetch_related) ==
    IF is_many /\ sub_select_related = <<>>
    THEN [acc EXCEPT !.final_prefetch = Append(@ \o sub_prefetch_related, accessor)]
    ELSE [acc EXCEPT !.final_prefetch = @ \o sub_prefetch_related]
MergePrefetch(acc, is_many, accessor, sub_select_related, sub_prefetch_related) ==
    IF sub_prefetch_related # <<>>
    THEN [acc EXCEPT !.final_prefetch = @ \o sub_prefetch_related]
    ELSE IF is_many
    THEN [acc EXCEPT !.final_prefetch = Append(@, accessor)]
    ELSE acc

\* evaluate_select_prefetch on the serializer at p: self.fields (evaluated
\* and cached when it was not), then one turn per relational field. The
\* result carries the instance with every fields it evaluated on the way.
RECURSIVE evaluate_select_prefetch(_, _, _)
RECURSIVE Walk(_, _, _, _)
RECURSIVE WalkRelations(_, _, _, _, _)
RECURSIVE Relation(_, _, _, _, _)
RECURSIVE MergeChild(_, _, _, _)

Start(r) ==
    [exc |-> r.exc, nodes |-> r.nodes, pfo |-> r.pfo,
     final_select |-> <<>>, final_prefetch |-> <<>>]

evaluate_select_prefetch(nodes, p, accessor_prefix) ==
    Walk(p, accessor_prefix, get_relational_fields(nodes[p].cls),
         IF nodes[p].fields.done
         THEN [exc |-> NoExc, nodes |-> nodes, pfo |-> <<>>]
         ELSE ResolveFields(nodes, p))

Walk(p, accessor_prefix, relational_fields, r) ==
    IF r.exc # NoExc THEN Start(r)
    ELSE WalkRelations(p, accessor_prefix, relational_fields, 1, Start(r))

\* for field_name in relational_fields: an exception ends the loop.
WalkRelations(p, accessor_prefix, relational_fields, i, acc) ==
    IF i > Len(relational_fields) \/ acc.exc # NoExc THEN acc
    ELSE IF relational_fields[i] \notin acc.nodes[p].fields.names
    THEN WalkRelations(p, accessor_prefix, relational_fields, i + 1, acc)
    ELSE WalkRelations(p, accessor_prefix, relational_fields, i + 1,
                       Relation(p, accessor_prefix \o relational_fields[i],
                                relational_fields[i], acc,
                                FieldObj(acc.nodes[p].cls, relational_fields[i])))

\* The suppress block of one relation; accessor is
\* f"{accessor_prefix}{field_name}".
Relation(p, accessor, field_name, acc, field_obj) ==
    IF extract_serializer_from_child(field_obj) # NoExc
    THEN IF extract_serializer_from_child(field_obj) \in WalkSuppressed
         THEN OpaqueChild(acc, is_child_multiple(field_obj), accessor)
         ELSE [acc EXCEPT !.exc = extract_serializer_from_child(field_obj)]
    ELSE MergeChild(acc, is_child_multiple(field_obj), accessor,
                    evaluate_select_prefetch(acc.nodes, Append(p, field_name),
                                             accessor \o LOOKUP_SEP))

\* What the recursive call left behind: the fields it evaluated.
Seen(acc, sub) == [acc EXCEPT !.nodes = sub.nodes, !.pfo = @ \o sub.pfo]

MergeChild(acc, is_many, accessor, sub) ==
    IF sub.exc # NoExc
    THEN IF sub.exc \in WalkSuppressed THEN Seen(acc, sub)
         ELSE [Seen(acc, sub) EXCEPT !.exc = sub.exc]
    ELSE MergePrefetch(MergeSelect(Seen(acc, sub), is_many, accessor, sub.final_select),
                       is_many, accessor, sub.final_select, sub.final_prefetch)

\* ---------------------------------------------------------- the hint caches

\* A hint pair as the code returns it: (select, prefetch).
Pair(select, prefetch) == [select |-> select, prefetch |-> prefetch]

\* The metaclass property all_select_prefetch: cls().evaluate_select_prefetch()
Hints(r) == [exc |-> r.exc, pfo |-> r.pfo,
             value |-> Pair(r.final_select, r.final_prefetch)]
AllSelectPrefetch(cls) ==
    Hints(evaluate_select_prefetch(
              [p \in {<<>>} |-> SerializerInit(cls, <<>>, <<>>).node], <<>>, <<>>))

\* cls.all_select_prefetch. mcls_cached_property has no __set__, so an entry
\* of that name in the __dict__ of any class of cls.__mro__ is found first;
\* only when there is none does __get__ run, compute the value and
\* setattr it on cls. attrs[c] is that entry of class c.
NoAttr == [set |-> FALSE, value |-> Pair(<<>>, <<>>)]
First(indices) == CHOOSE i \in indices : \A j \in indices : i <= j
AttrOwnerIn(attrs, mro) ==
    IF {i \in 1..Len(mro) : attrs[mro[i]].set} = {} THEN {}
    ELSE {mro[First({i \in 1..Len(mro) : attrs[mro[i]].set})]}
AttrOwner(attrs, cls) == AttrOwnerIn(attrs, Mro(cls))

Computed(attrs, cls, computed) ==
    IF computed.exc # NoExc
    THEN [exc |-> computed.exc, pfo |-> computed.pfo, attrs |-> attrs,
          value |-> Pair(<<>>, <<>>)]
    ELSE [exc |-> NoExc, pfo |-> computed.pfo,
          attrs |-> [attrs EXCEPT ![cls] = [set |-> TRUE, value |-> computed.value]],
          value |-> computed.value]
GetAllSelectPrefetch(attrs, cls) ==
    IF AttrOwner(attrs, cls) # {}
    THEN [exc |-> NoExc, pfo |-> <<>>, attrs |-> attrs,
          value |-> attrs[CHOOSE c \in AttrOwner(attrs, cls) : TRUE].value]
    ELSE Computed(attrs, cls, AllSelectPrefetch(cls))

\* each.startswith(field) or field.startswith(each)
PrefixRelatedOneWay(each, field) == StartsWith(each, field)
PrefixRelated(each, field) == StartsWith(each, field) \/ StartsWith(field, each)

\* The generator of one filter field over one Tier-1 list.
Matching(all, field) ==
    LET keep(each) == PrefixRelated(each, field)
    IN  SelectSeq(all, keep)

\* The extend loop over filter_fields.
RECURSIVE FilterHints(_, _, _)
FilterHints(all, filter_fields, k) ==
    IF k > Len(filter_fields) THEN <<>>
    ELSE Matching(all, filter_fields[k]) \o FilterHints(all, filter_fields, k + 1)

\* The list comprehension over omit_fields.
OmitHints(all, omit_fields) ==
    LET keep(each) == ~ \E k \in 1..Len(omit_fields) : PrefixRelated(each, omit_fields[k])
    IN  SelectSeq(all, keep)

\* The body of get_prefetch_select below the Tier-1 lookup.
FilterPrefetchSelect(all, filter_fields, omit_fields) ==
    IF filter_fields = <<>> /\ omit_fields = <<>> THEN all
    ELSE IF filter_fields # <<>>
    THEN Pair(FilterHints(all.select, filter_fields, 1),
              FilterHints(all.prefetch, filter_fields, 1))
    ELSE Pair(OmitHints(all.select, omit_fields),
              OmitHints(all.prefetch, omit_fields))

\* functools.lru_cache, most recently used last. A cache of keys:
Evict(grown, maxsize) == IF Len(grown) > maxsize THEN Tail(grown) ELSE grown
LruKeys(cache, key, maxsize) ==
    Evict(Append(SelectSeq(cache, LAMBDA k : k # key), key), maxsize)
RECURSIVE LruKeysAll(_, _, _)
LruKeysAll(cache, keys, maxsize) ==
    IF keys = <<>> THEN cache
    ELSE LruKeysAll(LruKeys(cache, keys[1], maxsize), Tail(keys), maxsize)

\* and a cache of [key, value] entries.
LruHit(cache, key) == {i \in 1..Len(cache) : cache[i].key = key}
LruGet(cache, key) == cache[CHOOSE i \in LruHit(cache, key) : TRUE].value
LruPut(cache, key, value, maxsize) ==
    Evict(Append(SelectSeq(cache, LAMBDA e : e.key # key),
                 [key |-> key, value |-> value]), maxsize)

\* get_prefetch_select behind its lru_cache: a hit returns the stored value,
\* a miss runs the body and stores what it returns (nothing when it raises).
Hit(cache, attrs, key, value) ==
    [exc |-> NoExc, pfo |-> <<>>, attrs |-> attrs, value |-> value,
     cache |-> LruPut(cache, key, value, MaxSize)]
Store(cache, key, all, value) ==
    [exc |-> NoExc, pfo |-> all.pfo, attrs |-> all.attrs, value |-> value,
     cache |-> LruPut(cache, key, value, MaxSize)]
Miss(cache, attrs, key, all) ==
    IF all.exc # NoExc
    THEN [exc |-> all.exc, pfo |-> all.pfo, attrs |-> attrs,
          value |-> Pair(<<>>, <<>>), cache |-> cache]
    ELSE Store(cache, key, all, FilterPrefetchSelect(all.value, key[2], key[3]))
Cached(cache, attrs, cls, key) ==
    IF LruHit(cache, key) # {}
    THEN Hit(cache, attrs, key, LruGet(cache, key))
    ELSE Miss(cache, attrs, key, GetAllSelectPrefetch(attrs, cls))
get_prefetch_select(cache, attrs, cls, filter_fields, omit_fields) ==
    Cached(cache, attrs, cls, <<cls, filter_fields, omit_fields>>)

\* ------------------------------------------------------------- requests

\* The selector strings a client sends for a class: its fields, nested
\* paths, unknown names, a prefix of a name, paths through a field that is
\* missing or is no serializer, and empty segments.
Path2(a, b) == a \o LOOKUP_SEP \o b
Path3(a, b, c) == a \o LOOKUP_SEP \o b \o LOOKUP_SEP \o c

Selectors(cls) ==
    CASE cls = "Book" ->
           { s_author, Path2(s_author, s_name), Path2(s_reviews, s_reviewer),
             s_title, s_auth, Path2(s_title, s_x), Path2(s_zzz, s_name),
             Path2(s_reviews, s_empty) }
      [] cls = "Library" ->
           { s_books, Path2(s_books, s_reviews), Path3(s_books, s_author, s_name),
             Path2(s_curator, s_reviews), Path2(s_owner, s_name), s_staff, s_name }
      [] cls = "Review" ->
           { s_reviewer, Path2(s_reviewer, s_name), s_text, s_empty }
      [] cls = "Author" ->
           { s_name, s_zzz }
      [] cls = "AuthorDetail" ->
           { s_name, s_reviews, Path2(s_reviews, s_reviewer) }
      [] cls = "Reviewer" ->
           { s_name }

Tuples(S, n) == UNION {[1..k -> S] : k \in 0..n}

Request(cls, filter_fields, omit_fields) ==
    [cls |-> cls, filter_fields |-> filter_fields, omit_fields |-> omit_fields]

\* One class with a filter tuple, an omit tuple, neither, or (short) both.
Requests ==
    UNION {
      {Request(cls, ff, of) :
         <<ff, of>> \in {t \in Tuples(Selectors(cls), MaxFields)
                                 \X Tuples(Selectors(cls), MaxFields) :
                            \/ t[1] = <<>>
                            \/ t[2] = <<>>
                            \/ Len(t[1]) + Len(t[2]) <= MaxFields}}
      : cls \in Classes}

Both(r) == r.filter_fields # <<>> /\ r.omit_fields # <<>>

\* The requests of the runs that look the hints of several classes up.
CacheClasses == {"Author", "AuthorDetail", "Review"}
CacheRequests ==
    {Request(cls, ff, of) :
       cls \in CacheClasses,
       <<ff, of>> \in {<< <<>>, <<>> >>,
                       << <<s_reviews>>, <<>> >>,
                       << <<>>, <<Path2(s_reviews, s_reviewer)>> >>}}

\* ---------------------------------------------------------------- state

VARIABLES
    req,        \* the request being served
    inst,       \* the serializer instance of the request, by place
    raised,     \* the exception the last operation ended with, or NoExc
    op,         \* the last operation
    hints,      \* what get_prefetch_select returned last
    walked,     \* what evaluate_select_prefetch returned on inst
    attrs,      \* all_select_prefetch in each class's __dict__
    cache,      \* the lru_cache of get_prefetch_select
    pfo_cache   \* the lru_cache of process_field_options (its keys)

vars == <<req, inst, raised, op, hints, walked, attrs, cache, pfo_cache>>

NoInst == [p \in {} |-> {}]
Unset == [set |-> FALSE, value |-> Pair(<<>>, <<>>)]
Returned(v) == [set |-> TRUE, value |-> v]

Fresh ==
    /\ inst = NoInst
    /\ raised = NoExc
    /\ op = ""
    /\ hints = Unset
    /\ walked = Unset
    /\ attrs = [c \in Classes |-> NoAttr]
    /\ cache = <<>>
    /\ pfo_cache = <<>>

Init == req \in Requests /\ Fresh

\* A serializer constructed, or the exception its __init__ raised.
Made(name, made) ==
    /\ op' = name
    /\ raised' = made.exc
    /\ inst' = IF made.exc = NoExc THEN [p \in {<<>>} |-> made.node] ELSE NoInst
    /\ walked' = Unset
    /\ pfo_cache' = LruKeysAll(pfo_cache, made.pfo, PfoMaxSize)

\* serializer_class(filter_fields=..., omit_fields=...)
Construct(r) ==
    /\ Made("__init__", SerializerInit(r.cls, r.filter_fields, r.omit_fields))
    /\ UNCHANGED <<hints, attrs, cache>>

\* The first read of the property `fields` of the serializer at p.
FieldsRead(r) ==
    /\ op' = "fields"
    /\ raised' = r.exc
    /\ inst' = r.nodes
    /\ pfo_cache' = LruKeysAll(pfo_cache, r.pfo, PfoMaxSize)
    /\ UNCHANGED <<hints, walked, attrs, cache>>
Fields(p) ==
    /\ p \in DOMAIN inst
    /\ ~inst[p].fields.done
    /\ FieldsRead(ResolveFields(inst, p))

\* serializer.evaluate_select_prefetch() on the top-level serializer.
Evaluated(r) ==
    /\ op' = "evaluate_select_prefetch"
    /\ raised' = r.exc
    /\ inst' = r.nodes
    /\ walked' = IF r.exc = NoExc
                 THEN Returned(Pair(r.final_select, r.final_prefetch))
                 ELSE walked
    /\ pfo_cache' = LruKeysAll(pfo_cache, r.pfo, PfoMaxSize)
    /\ UNCHANGED <<hints, attrs, cache>>
EvaluateSelectPrefetch ==
    /\ inst # NoInst
    /\ Evaluated(evaluate_select_prefetch(inst, <<>>, <<>>))

\* get_prefetch_select(serializer_class, filter_fields, omit_fields)
Got(g) ==
    /\ op' = "get_prefetch_select"
    /\ raised' = g.exc
    /\ hints' = IF g.exc = NoExc THEN Returned(g.value) ELSE hints
    /\ attrs' = g.attrs
    /\ cache' = g.cache
    /\ pfo_cache' = LruKeysAll(pfo_cache, g.pfo, PfoMaxSize)
    /\ UNCHANGED <<inst, walked>>
GetPrefetchSelect(r) ==
    Got(get_prefetch_select(cache, attrs, r.cls, r.filter_fields, r.omit_fields))

\* serializer_class.with_select_prefetch(queryset, filter_fields=...,
\* omit_fields=...): the hints are fetched and applied to the queryset, then
\* the serializer is constructed.
GotAndMade(g, made) ==
    /\ op' = "with_select_prefetch"
    /\ attrs' = g.attrs
    /\ cache' = g.cache
    /\ hints' = IF g.exc = NoExc THEN Returned(g.value) ELSE hints
    /\ walked' = Unset
    /\ IF g.exc # NoExc
       THEN /\ raised' = g.exc
            /\ inst' = NoInst
            /\ pfo_cache' = LruKeysAll(pfo_cache, g.pfo, PfoMaxSize)
       ELSE /\ raised' = made.exc
            /\ inst' = IF made.exc = NoExc
                       THEN [p \in {<<>>} |-> made.node] ELSE NoInst
            /\ pfo_cache' = LruKeysAll(pfo_cache, g.pfo \o made.pfo, PfoMaxSize)
WithSelectPrefetch(r) ==
    GotAndMade(get_prefetch_select(cache, attrs, r.cls, r.filter_fields, r.omit_fields),
               SerializerInit(r.cls, r.filter_fields, r.omit_fields))

\* The query parameters ?fields=...&omit=... a client sends for request r.
QueryParam(selectors) == Join(selectors, COMMA)

\* DynamicReadViewMixin.fields / .omit: None (here <<>>) for an absent or
\* empty parameter, otherwise its split on ",".
ViewList(unparsed) == IF unparsed # <<>> THEN Split(unparsed, COMMA) ELSE <<>>

\* DynamicReadViewMixin.get_serializer for a DynamicReadSerializerMixin class.
GetSerializer(r) ==
    /\ Made("get_serializer",
            SerializerInit(r.cls,
                           ViewList(QueryParam(r.filter_fields)),
                           ViewList(QueryParam(r.omit_fields))))
    /\ UNCHANGED <<hints, attrs, cache>>

\* One request served by a fresh process.
Next ==
    \/ Construct(req) /\ UNCHANGED req
    \/ (\E p \in DOMAIN inst : Fields(p)) /\ UNCHANGED req
    \/ EvaluateSelectPrefetch /\ UNCHANGED req
    \/ GetPrefetchSelect(req) /\ UNCHANGED req
    \/ WithSelectPrefetch(req) /\ UNCHANGED req
    \/ GetSerializer(req) /\ UNCHANGED req

Spec == Init /\ [][Next]_vars

\* A process that looks the hints of several classes up, one after another.
InitCache == req = Request("Author", <<>>, <<>>) /\ Fresh

Lookup(r) == req' = r /\ GetPrefetchSelect(r)

NextCache == \E r \in CacheRequests : Lookup(r)

SpecCache == InitCache /\ [][NextCache]_vars

\* ---------------------------------------------------------------- claims

CtorOps == {"__init__", "with_select_prefetch", "get_serializer"}

\* accessor_prefix of the serializer at place p.
PrefixOf(p) == IF p = <<>> THEN <<>> ELSE Join(p, LOOKUP_SEP) \o LOOKUP_SEP

\* What evaluate_select_prefetch returns at place p of the instance.
Level(p) == evaluate_select_prefetch(inst, p, PrefixOf(p))

\* The instance was built with exactly the request's tuples.
BuiltFromRequest ==
    /\ inst # NoInst
    /\ inst[<<>>]._filter_fields = req.filter_fields
    /\ inst[<<>>]._omit_fields = req.omit_fields

Segments(s) == Split(s, LOOKUP_SEP)

\* C1: for a request with only filter_fields or only omit_fields, the hints
\* get_prefetch_select returns equal, as sets, the hints the relation walk
\* computes on an instance built with the same tuples.
C1_HintsEqualWalk ==
    (hints.set /\ walked.set /\ BuiltFromRequest /\ ~Both(req)) =>
        /\ Range(hints.value.select) = Range(walked.value.select)
        /\ Range(hints.value.prefetch) = Range(walked.value.prefetch)

\* Every hop of an accessor path, from class cls on, is a single-valued field.
RECURSIVE HopsSingle(_, _)
HopsSingle(cls, segs) ==
    \/ segs = <<>>
    \/ /\ segs[1] \in FieldNames(cls)
       /\ ~is_child_multiple(FieldObj(cls, segs[1]))
       /\ HopsSingle(FieldObj(cls, segs[1]).cls, Tail(segs))

\* C2: no direct_join path of any serializer of a walked instance passes
\* through a list-valued field (so what lies beneath one is in batched_load),
\* and the unrestricted Book gives direct_join = {author},
\* batched_load = {reviews, reviews__reviewer}.
C2_SelectNeverCrossesMany ==
    walked.set =>
        /\ \A path \in Range(walked.value.select) :
              HopsSingle(inst[<<>>].cls, Segments(path))
        /\ \A p \in DOMAIN inst :
              \A path \in Range(evaluate_select_prefetch(inst, p, <<>>).final_select) :
                 HopsSingle(inst[p].cls, Segments(path))
        /\ (inst[<<>>].cls = "Book" /\ ~inst[<<>>].dr_meta.has) =>
              /\ Range(walked.value.select) = {s_author}
              /\ Range(walked.value.prefetch) =
                    {s_reviews, Path2(s_reviews, s_reviewer)}

C2_Witness ==
    /\ walked.set
    /\ inst[<<>>].cls = "Book"
    /\ ~inst[<<>>].dr_meta.has
    /\ Path2(s_reviews, s_reviewer) \in Range(walked.value.prefetch)

\* The first segments of the filter paths, and the one-segment omit paths.
IncludeNames(filter_fields) ==
    {Segments(filter_fields[k])[1] : k \in 1..Len(filter_fields)}
OmitNames(omit_fields) ==
    {omit_fields[k] : k \in {j \in 1..Len(omit_fields) : Len(Segments(omit_fields[j])) = 1}}

\* C3: the names a serializer exposes are F minus S.omit for an omit
\* request, F intersected with S.fields for an include request, and F when
\* no dr_meta is attached; names outside F have no effect, and no serializer
\* is bound under a name that is not exposed.
C3_ExposedFields ==
    /\ \A p \in DOMAIN inst :
          inst[p].fields.done =>
             inst[p].fields.names =
                IF ~inst[p].dr_meta.has THEN FieldNames(inst[p].cls)
                ELSE IF inst[p].dr_meta.tree[<<>>].fields.all
                THEN FieldNames(inst[p].cls) \ inst[p].dr_meta.tree[<<>>].omit
                ELSE FieldNames(inst[p].cls) \cap inst[p].dr_meta.tree[<<>>].fields.names
    /\ (inst # NoInst /\ inst[<<>>].fields.done) =>
          inst[<<>>].fields.names =
             IF inst[<<>>]._filter_fields # <<>>
             THEN FieldNames(inst[<<>>].cls) \cap IncludeNames(inst[<<>>]._filter_fields)
             ELSE FieldNames(inst[<<>>].cls) \ OmitNames(inst[<<>>]._omit_fields)
    /\ \A p \in DOMAIN inst :
          p # <<>> =>
             /\ SubSeq(p, 1, Len(p) - 1) \in DOMAIN inst
             /\ p[Len(p)] \in inst[SubSeq(p, 1, Len(p) - 1)].fields.names

C3_Witness ==
    /\ inst # NoInst
    /\ inst[<<>>].cls = "Book"
    /\ inst[<<>>]._filter_fields = <<s_author, s_auth>>
    /\ inst[<<>>].fields.done
    /\ inst[<<>>].fields.names = {s_author}

\* The filter paths beneath field c, with c taken off.
Beneath(filter_fields, c) ==
    LET through == SelectSeq(filter_fields,
                       LAMBDA s : Len(Segments(s)) >= 2 /\ Segments(s)[1] = c)
    IN  [k \in 1..Len(through) |-> Join(Tail(Segments(through[k])), LOOKUP_SEP)]

\* C4: for a filter path c__x through a DynamicReadSerializerMixin child c,
\* the parent exposes c; a child declared without filter_fields carries the
\* nested dr_meta for c from the moment it exists, and once it resolves its
\* fields it exposes its own names intersected with the names asked for
\* beneath c; a child declared with filter_fields keeps its own dr_meta.
C4_NestedCascade ==
    (inst # NoInst /\ inst[<<>>].fields.done /\ inst[<<>>]._filter_fields # <<>>) =>
       \A k \in 1..Len(inst[<<>>]._filter_fields) :
          LET ff == inst[<<>>]._filter_fields
              c == Segments(ff[k])[1]
              d == FieldObj(inst[<<>>].cls, c)
              asked == IF d.filter_fields = <<>> THEN Beneath(ff, c) ELSE d.filter_fields
          IN  (Len(Segments(ff[k])) >= 2 /\ c \in FieldNames(inst[<<>>].cls)
               /\ d.type = "Dynamic") =>
                 /\ c \in inst[<<>>].fields.names
                 /\ <<c>> \in DOMAIN inst
                 /\ inst[<<c>>].dr_meta =
                       [has |-> TRUE, tree |-> process_field_options(asked, <<>>)]
                 /\ inst[<<c>>].fields.done =>
                       inst[<<c>>].fields.names =
                          FieldNames(d.cls) \cap IncludeNames(asked)

C4_Witness ==
    /\ inst # NoInst
    /\ inst[<<>>].cls = "Book"
    /\ inst[<<>>]._filter_fields = <<Path2(s_author, s_name)>>
    /\ <<s_author>> \in DOMAIN inst
    /\ inst[<<s_author>>].fields.done
    /\ inst[<<s_author>>].fields.names = {s_name}

\* C5: a construction (direct, through with_select_prefetch or through the
\* view) ends with the AssertionError exactly when both lists it is given are
\* non-empty; then no serializer exists, otherwise one does.
C5_MutualExclusion ==
    /\ op \in {"__init__", "with_select_prefetch"} =>
          (raised = "AssertionError" <=> Both(req))
    /\ op = "get_serializer" =>
          (raised = "AssertionError" <=>
              (QueryParam(req.filter_fields) # <<>> /\ QueryParam(req.omit_fields) # <<>>))
    /\ raised = "AssertionError" => inst = NoInst
    /\ (op \in CtorOps /\ raised = NoExc) => inst # NoInst

C5_Witness ==
    /\ op = "with_select_prefetch"
    /\ Both(req)
    /\ raised = "AssertionError"

\* C6: no operation ends with an exception other than the AssertionError of
\* a construction given both lists; a bad nested path (a missing field, a
\* field that is no DynamicReadSerializerMixin) leaves the other nested
\* fields with their dr_meta attached.
C6_OnlyAssertionFails ==
    /\ raised \in {NoExc, "AssertionError"}
    /\ raised = "AssertionError" => (op \in CtorOps /\ inst = NoInst)
    /\ \A p \in DOMAIN inst :
          (inst[p].fields.done /\ inst[p].dr_meta.has) =>
             \A f \in Nested(inst[p].dr_meta.tree) \cap inst[p].fields.names :
                (FieldObj(inst[p].cls, f).type = "Dynamic"
                 /\ FieldObj(inst[p].cls, f).filter_fields = <<>>) =>
                   /\ Append(p, f) \in DOMAIN inst
                   /\ inst[Append(p, f)].dr_meta =
                         [has |-> TRUE, tree |-> SubTree(inst[p].dr_meta.tree, f)]

C6_Witness ==
    /\ op = "evaluate_select_prefetch"
    /\ raised = NoExc
    /\ walked.set
    /\ inst[<<>>]._filter_fields = <<Path2(s_zzz, s_name), Path2(s_title, s_x)>>

\* a is a prefix of b, character by character.
IsPrefix(a, b) == Len(a) <= Len(b) /\ \A i \in 1..Len(a) : a[i] = b[i]

\* C7: with filter_fields the result keeps the Tier-1 entries that are a
\* prefix of, or have as a prefix, some filter path; with omit_fields alone
\* it keeps the entries in no such relation with an omitted path; with
\* neither it is the Tier-1 result. Book's Tier-1 result with
\* filter_fields = (author,) gives direct_join = {author}, batched_load = {}.
C7_TierTwoFilter ==
    (hints.set /\ attrs[req.cls].set) =>
       LET all == attrs[req.cls].value
           ff == req.filter_fields
           of == req.omit_fields
           rel(each, paths) == \E k \in 1..Len(paths) :
                                  IsPrefix(each, paths[k]) \/ IsPrefix(paths[k], each)
       IN  /\ ff # <<>> =>
                /\ Range(hints.value.select) = {e \in Range(all.select) : rel(e, ff)}
                /\ Range(hints.value.prefetch) = {e \in Range(all.prefetch) : rel(e, ff)}
           /\ (ff = <<>> /\ of # <<>>) =>
                /\ Range(hints.value.select) = {e \in Range(all.select) : ~rel(e, of)}
                /\ Range(hints.value.prefetch) = {e \in Range(all.prefetch) : ~rel(e, of)}
           /\ (ff = <<>> /\ of = <<>>) => hints.value = all
           /\ (req.cls = "Book" /\ ff = <<s_author>> /\ of = <<>>) =>
                /\ Range(all.select) = {s_author}
                /\ Range(all.prefetch) = {s_reviews, Path2(s_reviews, s_reviewer)}
                /\ hints.value = Pair(<<s_author>>, <<>>)

C7_Witness ==
    /\ hints.set
    /\ req = Request("Book", <<Path2(s_author, s_name)>>, <<>>)
    /\ hints.value = Pair(<<s_author>>, <<>>)

\* C8: what is stored for a class, what is cached for a key and what a lookup
\* returns equal what is computed from scratch for that class or key.
C8_CachesArePure ==
    /\ \A c \in Classes :
          attrs[c].set => attrs[c].value = AllSelectPrefetch(c).value
    /\ \A i \in 1..Len(cache) :
          cache[i].value =
             FilterPrefetchSelect(AllSelectPrefetch(cache[i].key[1]).value,
                                  cache[i].key[2], cache[i].key[3])
    /\ hints.set =>
          hints.value =
             FilterPrefetchSelect(AllSelectPrefetch(req.cls).value,
                                  req.filter_fields, req.omit_fields)

\* The exposed relational fields of the serializer at p whose child is no
\* DynamicReadSerializerMixin, and those whose child is one and list-valued.
Relational(p) ==
    Range(get_relational_fields(inst[p].cls)) \cap inst[p].fields.names
OpaqueRelations(p) ==
    {f \in Relational(p) :
        extract_serializer_from_child(FieldObj(inst[p].cls, f)) = "ChildNotSupported"}
ManyRelations(p) ==
    {f \in Relational(p) :
        /\ extract_serializer_from_child(FieldObj(inst[p].cls, f)) = NoExc
        /\ is_child_multiple(FieldObj(inst[p].cls, f))}
Accessor(p, f) == PrefixOf(p) \o f

\* C9 as stated: an exposed relation whose child does not support dynamic
\* selection gets a hint, direct_join when single-valued, batched_load when
\* list-valued.
C9_OpaqueChildHinted ==
    walked.set =>
       \A p \in DOMAIN inst : \A f \in OpaqueRelations(p) :
          IF is_child_multiple(FieldObj(inst[p].cls, f))
          THEN Accessor(p, f) \in Range(Level(p).final_prefetch)
          ELSE Accessor(p, f) \in Range(Level(p).final_select)

\* C9 amended: an exposed relation whose child does not support dynamic
\* selection gets no hint at all, neither for itself nor beneath it.
C9_OpaqueChildSkipped ==
    walked.set =>
       /\ walked.value = Pair(Level(<<>>).final_select, Level(<<>>).final_prefetch)
       /\ \A p \in DOMAIN inst : \A f \in OpaqueRelations(p) :
             \A h \in Range(Level(p).final_select) \cup Range(Level(p).final_prefetch) :
                /\ h # Accessor(p, f)
                /\ ~StartsWith(h, Accessor(p, f) \o LOOKUP_SEP)

C9_Witness ==
    /\ walked.set
    /\ inst[<<>>].cls = "Library"
    /\ {s_owner, s_staff} \subseteq inst[<<>>].fields.names
    /\ s_curator \in Range(walked.value.select)

\* C10 as stated: for an exposed list-valued relation with a dynamic child,
\* the field's own path is in this level's batched_load whenever the
\* recursive call yields no direct_join entries, and the recursive call's
\* batched_load entries are all in this level's batched_load.
C10_OwnPathWhenNoJoins ==
    walked.set =>
       \A p \in DOMAIN inst : \A f \in ManyRelations(p) :
          /\ Level(Append(p, f)).final_select = <<>> =>
                Accessor(p, f) \in Range(Level(p).final_prefetch)
          /\ Range(Level(Append(p, f)).final_prefetch)
                \subseteq Range(Level(p).final_prefetch)

\* C10 amended: the field's own path is in this level's batched_load exactly
\* when the recursive call yields no batched_load entries (whether or not it
\* yields direct_join entries, which are moved into batched_load), and the
\* recursive call's batched_load entries are all in this level's
\* batched_load.
C10_OwnPathWhenNoBatches ==
    walked.set =>
       \A p \in DOMAIN inst : \A f \in ManyRelations(p) :
          /\ Accessor(p, f) \in Range(Level(p).final_prefetch)
                <=> Level(Append(p, f)).final_prefetch = <<>>
          /\ Range(Level(Append(p, f)).final_prefetch)
                \subseteq Range(Level(p).final_prefetch)
          /\ Range(Level(Append(p, f)).final_select)
                \subseteq Range(Level(p).final_prefetch)

C10_Witness ==
    /\ walked.set
    /\ inst[<<>>].cls = "Book"
    /\ s_reviews \in ManyRelations(<<>>)
    /\ Level(<<s_reviews>>).final_select # <<>>
    /\ s_reviews \in Range(walked.value.prefetch)

====
